---- MODULE Spec2Model ----
(***************************************************************************)
(* Model of the ThemedImage component of evm.guide (src/unnamed/part_000): *)
(* the frontmatter that normalizes the dark and light references, looks    *)
(* them up in the import.meta.glob collection and throws when one is       *)
(* missing, and the template that renders the two <Image> elements.        *)
(* Strings are TLA+ strings; the component's statements are the steps of   *)
(* one invocation, and invocations follow one another (one per page use).  *)
(***************************************************************************)
EXTENDS Integers, Sequences, FiniteSets, TLC

VARIABLES
    images,       \* the import.meta.glob result: key -> lazy loader
    images0,      \* history: the collection as the build tooling populated it
    pc,           \* position of the current invocation
    props,        \* Astro.props of the current invocation
    dark,         \* const dark  (normalized key)
    light,        \* const light (normalized key)
    lookups,      \* history: keys looked up by the existence checks, in order
    loaderCalls,  \* history: keys whose loader was invoked, in order
    elements,     \* the <Image> elements emitted, in order
    error,        \* message of the thrown Error, "" when nothing was thrown
    recorded      \* history: props and outcome of one earlier invocation

vars == <<images, images0, pc, props, dark, light, lookups, loaderCalls,
          elements, error, recorded>>

----------------------------------------------------------------------------
(* String helpers (String.prototype.startsWith, substring search, split).  *)

StartsWith(s, p) ==
    /\ Len(s) >= Len(p)
    /\ SubSeq(s, 1, Len(p)) = p

EndsWith(s, p) ==
    /\ Len(s) >= Len(p)
    /\ SubSeq(s, Len(s) - Len(p) + 1, Len(s)) = p

Contains(s, p) ==
    \E i \in 1..(Len(s) - Len(p) + 1) : SubSeq(s, i, i + Len(p) - 1) = p

\* String.prototype.indexOf: the first position of p in s, 0 when absent.
IndexOf(s, p) ==
    IF Contains(s, p)
    THEN CHOOSE i \in 1..(Len(s) - Len(p) + 1) :
            /\ SubSeq(s, i, i + Len(p) - 1) = p
            /\ \A j \in 1..(i - 1) : SubSeq(s, j, j + Len(p) - 1) # p
    ELSE 0

\* The non-empty pieces of s between occurrences of the character sep.
RECURSIVE SplitFrom(_, _, _, _)
SplitFrom(s, sep, i, cur) ==
    IF i > Len(s)
    THEN IF cur = "" THEN <<>> ELSE <<cur>>
    ELSE IF SubSeq(s, i, i) = sep
         THEN (IF cur = "" THEN <<>> ELSE <<cur>>) \o SplitFrom(s, sep, i + 1, "")
         ELSE SplitFrom(s, sep, i + 1, cur \o SubSeq(s, i, i))

\* The whitespace-separated tokens of a class attribute.
Tokens(s) == SplitFrom(s, " ", 1, "")

Range(q) == {q[i] : i \in DOMAIN q}

----------------------------------------------------------------------------
(* Inputs.                                                                 *)

\* Files under the project root that a build can find on disk.
DiskFiles ==
    { "/src/assets/concepts/calldata/dissection-dark.svg",
      "/src/assets/concepts/calldata/dissection-light.svg",
      "/src/assets/notes.txt",
      "/src/assets/.hidden.svg",
      "/src/assets/.cache/x.png",
      "/src/assets/node_modules/pkg/logo.png" }

\* The disk contents a build starts from.
Disks ==
    { {},
      { "/src/assets/concepts/calldata/dissection-dark.svg" },
      { "/src/assets/concepts/calldata/dissection-light.svg",
        "/src/assets/notes.txt",
        "/src/assets/.hidden.svg" },
      DiskFiles }

\* Reference strings a page passes as dark= / light=.
References ==
    { "",
      "concepts/calldata/dissection-dark.svg",
      "/concepts/calldata/dissection-dark.svg",
      "//concepts/calldata/dissection-dark.svg",
      "concepts/calldata/dissection-light.svg",
      "nonexistent.svg" }

Alts == { "Diagram labeling each part of the calldata", "" }

\* The optional class prop: absent (undefined) or a string.
NoClass == [given |-> FALSE]
Classes == { NoClass } \cup { [given |-> TRUE, value |-> c] : c \in {"rounded", "!hidden"} }

PropsSet == [dark : References, light : References, alt : Alts, class : Classes]

Themes == { "dark", "light", "" }

NoProps == [dark |-> "", light |-> "", alt |-> "", class |-> NoClass]
NoRecord == [taken |-> FALSE]

----------------------------------------------------------------------------
(* The component.                                                          *)

GLOB == "/src/assets/**/*.{jpeg,jpg,png,gif,svg}"

GlobPattern == "/src/assets/**/*.{jpeg,jpg,png,gif,svg}"

\* The directory the pattern searches: what precedes its "**".
GlobRoot(pattern) == SubSeq(pattern, 1, IndexOf(pattern, "**") - 1)

\* The extensions the pattern accepts: the alternatives inside its braces.
GlobExtensions(pattern) ==
    Range(SplitFrom(SubSeq(pattern, IndexOf(pattern, "{") + 1,
                                    IndexOf(pattern, "}") - 1), ",", 1, ""))

\* The path segments of file f below the pattern's root.
SegmentsBelow(root, f) == SplitFrom(SubSeq(f, Len(root) + 1, Len(f)), "/", 1, "")

\* Segments the glob never descends into or matches: dot files and dot
\* directories (the "*" and "**" of the pattern do not match a leading "."),
\* and node_modules, which import.meta.glob ignores.
ExcludedSegment(seg) == StartsWith(seg, ".") \/ seg = "node_modules"

\* import.meta.glob(pattern): every file under the pattern's root with one of
\* its extensions and no excluded segment, keyed by its path, each with a lazy
\* loader of that file.
ImportMetaGlob(pattern, files) ==
    [ k \in { f \in files :
                /\ StartsWith(f, GlobRoot(pattern))
                /\ \E e \in GlobExtensions(pattern) : EndsWith(f, "." \o e)
                /\ \A seg \in Range(SegmentsBelow(GlobRoot(pattern), f)) :
                        ~ExcludedSegment(seg) }
        |-> [module |-> k] ]

\* Calling a loader resolves to the module of the asset it was made for.
CallLoader(loader) == [default |-> loader.module]

\* Mutants of Normalize: the separator is never, or always, inserted.
NormalizeNeverSeparator(raw) == "/src/assets" \o raw

NormalizeAlwaysSeparator(raw) == "/src/assets" \o "/" \o raw

\* Mutant of Normalize: the separator test looks at the end of the reference.
NormalizeTestsEnd(raw) ==
    "/src/assets" \o (IF EndsWith(raw, "/") THEN "" ELSE "/") \o raw

\* "/src/assets" + (raw.startsWith("/") ? "" : "/") + raw
Normalize(raw) ==
    "/src/assets" \o (IF StartsWith(raw, "/") THEN "" ELSE "/") \o raw

\* `"${key}" does not exist in glob: "${GLOB}"`
ErrorMessage(key) ==
    "\"" \o key \o "\" does not exist in glob: \"" \o GLOB \o "\""

\* `${Astro.props.class}` inside a template literal: String(value).
ClassToString(c) == IF c.given THEN c.value ELSE "undefined"

\* Mutant of DarkClass: the light element's rules pasted onto the dark one.
DarkClassAsLight(c) == "block dark:hidden " \o ClassToString(c)

DarkClass(c) == "!hidden dark:!block " \o ClassToString(c)

LightClass(c) == "block dark:hidden " \o ClassToString(c)

\* How the class names used by the template act on an element's display:
\* "hidden" / "block" set it, a leading "!" makes the rule important, and a
\* leading "dark:" makes it apply only while the theme is "dark".
DisplayRule(tok) ==
    LET darkOnly == StartsWith(tok, "dark:")
        rest == IF darkOnly THEN SubSeq(tok, 6, Len(tok)) ELSE tok
        important == StartsWith(rest, "!")
        utility == IF important THEN SubSeq(rest, 2, Len(rest)) ELSE rest
    IN  [darkOnly |-> darkOnly, important |-> important, utility |-> utility]

IsDisplayRule(tok) == DisplayRule(tok).utility \in {"hidden", "block"}

\* Precedence of a rule: important beats normal, and within the same
\* importance the theme-conditional rule beats the unconditional one.
Precedence(rule) ==
    (IF rule.important THEN 2 ELSE 0) + (IF rule.darkOnly THEN 1 ELSE 0)

\* Whether an element with class attribute cls is displayed under theme:
\* the applicable rule of highest precedence decides ("hidden" wins a tie),
\* and an image with no display rule at all is displayed.
Shown(theme, cls) ==
    LET rules == { DisplayRule(t) : t \in { u \in Range(Tokens(cls)) : IsDisplayRule(u) } }
        applicable == { r \in rules : r.darkOnly => theme = "dark" }
        top == { r \in applicable :
                    \A q \in applicable : Precedence(q) <= Precedence(r) }
    IN  \A r \in top : r.utility = "block"

----------------------------------------------------------------------------

Init ==
    /\ \E files \in Disks : images = ImportMetaGlob(GlobPattern, files)
    /\ images0 = images
    /\ pc = "idle"
    /\ props = NoProps
    /\ dark = ""
    /\ light = ""
    /\ lookups = <<>>
    /\ loaderCalls = <<>>
    /\ elements = <<>>
    /\ error = ""
    /\ recorded = NoRecord

\* A page uses <ThemedImage ... />: props are destructured and normalized.
\* Nothing has been looked up, loaded, emitted or thrown yet.
Invoke ==
    /\ pc = "idle"
    /\ \E p \in PropsSet :
        /\ props' = p
        /\ dark' = Normalize(p.dark)
        /\ light' = Normalize(p.light)
    /\ pc' = "checkDark"
    /\ UNCHANGED <<images, images0, lookups, loaderCalls, elements, error, recorded>>

\* Mutant of CheckDark: the two checks swapped, the light key is tested first.
CheckDarkTestsLight ==
    /\ pc = "checkDark"
    /\ lookups' = Append(lookups, light)
    /\ IF light \notin DOMAIN images
       THEN /\ error' = ErrorMessage(light)
            /\ pc' = "failed"
       ELSE /\ error' = error
            /\ pc' = "checkLight"
    /\ UNCHANGED <<images, images0, props, dark, light, loaderCalls, elements, recorded>>

\* Mutant of CheckDark: a lookup that stores a loader for the key it misses.
CheckDarkInsertsKey ==
    /\ pc = "checkDark"
    /\ lookups' = Append(lookups, dark)
    /\ IF dark \notin DOMAIN images
       THEN /\ error' = ErrorMessage(dark)
            /\ pc' = "failed"
            /\ images' = [k \in DOMAIN images \cup {dark} |->
                              IF k \in DOMAIN images THEN images[k] ELSE [module |-> k]]
       ELSE /\ error' = error
            /\ pc' = "checkLight"
            /\ images' = images
    /\ UNCHANGED <<images0, props, dark, light, loaderCalls, elements, recorded>>

\* if (!images[dark]) throw new Error(...)
CheckDark ==
    /\ pc = "checkDark"
    /\ lookups' = Append(lookups, dark)
    /\ IF dark \notin DOMAIN images
       THEN /\ error' = ErrorMessage(dark)
            /\ pc' = "failed"
       ELSE /\ error' = error
            /\ pc' = "checkLight"
    /\ UNCHANGED <<images, images0, props, dark, light, loaderCalls, elements, recorded>>

\* Mutant of CheckLight: the second check tests the dark key again.
CheckLightTestsDark ==
    /\ pc = "checkLight"
    /\ lookups' = Append(lookups, dark)
    /\ IF dark \notin DOMAIN images
       THEN /\ error' = ErrorMessage(dark)
            /\ pc' = "failed"
       ELSE /\ error' = error
            /\ pc' = "renderDark"
    /\ UNCHANGED <<images, images0, props, dark, light, loaderCalls, elements, recorded>>

\* Mutant of CheckLight: the second message names the dark key.
CheckLightNamesDark ==
    /\ pc = "checkLight"
    /\ lookups' = Append(lookups, light)
    /\ IF light \notin DOMAIN images
       THEN /\ error' = ErrorMessage(dark)
            /\ pc' = "failed"
       ELSE /\ error' = error
            /\ pc' = "renderDark"
    /\ UNCHANGED <<images, images0, props, dark, light, loaderCalls, elements, recorded>>

\* Mutant of CheckLight: the dark loader is invoked before the light check.
CheckLightLoadsFirst ==
    /\ pc = "checkLight"
    /\ lookups' = Append(lookups, light)
    /\ loaderCalls' = Append(loaderCalls, dark)
    /\ IF light \notin DOMAIN images
       THEN /\ error' = ErrorMessage(light)
            /\ pc' = "failed"
       ELSE /\ error' = error
            /\ pc' = "renderDark"
    /\ UNCHANGED <<images, images0, props, dark, light, elements, recorded>>

\* if (!images[light]) throw new Error(...)
CheckLight ==
    /\ pc = "checkLight"
    /\ lookups' = Append(lookups, light)
    /\ IF light \notin DOMAIN images
       THEN /\ error' = ErrorMessage(light)
            /\ pc' = "failed"
       ELSE /\ error' = error
            /\ pc' = "renderDark"
    /\ UNCHANGED <<images, images0, props, dark, light, loaderCalls, elements, recorded>>

\* <Image src={images[dark]()} {alt} class={`!hidden dark:!block ${...}`} />
RenderDark ==
    /\ pc = "renderDark"
    /\ loaderCalls' = Append(loaderCalls, dark)
    /\ elements' = Append(elements,
                          [src |-> CallLoader(images[dark]),
                           alt |-> props.alt,
                           class |-> DarkClass(props.class)])
    /\ pc' = "renderLight"
    /\ UNCHANGED <<images, images0, props, dark, light, lookups, error, recorded>>

\* Mutant of RenderLight: the second element loads the dark asset again.
RenderLightLoadsDark ==
    /\ pc = "renderLight"
    /\ loaderCalls' = Append(loaderCalls, dark)
    /\ elements' = Append(elements,
                          [src |-> CallLoader(images[dark]),
                           alt |-> props.alt,
                           class |-> LightClass(props.class)])
    /\ pc' = "done"
    /\ UNCHANGED <<images, images0, props, dark, light, lookups, error, recorded>>

\* <Image src={images[light]()} {alt} class={`block dark:hidden ${...}`} />
RenderLight ==
    /\ pc = "renderLight"
    /\ loaderCalls' = Append(loaderCalls, light)
    /\ elements' = Append(elements,
                          [src |-> CallLoader(images[light]),
                           alt |-> props.alt,
                           class |-> LightClass(props.class)])
    /\ pc' = "done"
    /\ UNCHANGED <<images, images0, props, dark, light, lookups, error, recorded>>

\* What the caller gets back from a finished invocation.
Outcome ==
    IF pc = "done"
    THEN [ok |-> TRUE, elements |-> elements]
    ELSE [ok |-> FALSE, error |-> error]

\* Mutant of Return: the emitted elements outlive the invocation.
ReturnKeepsElements ==
    /\ pc \in {"done", "failed"}
    /\ pc' = "idle"
    /\ props' = NoProps
    /\ dark' = ""
    /\ light' = ""
    /\ lookups' = <<>>
    /\ loaderCalls' = <<>>
    /\ error' = ""
    /\ \/ recorded' = [taken |-> TRUE, props |-> props,
                        outcome |-> IF pc = "done"
                                    THEN [ok |-> TRUE, elements |-> elements]
                                    ELSE [ok |-> FALSE, error |-> error]]
       \/ recorded' = recorded
    /\ UNCHANGED <<images, images0, elements>>

\* The invocation is over (rendered, or the Error propagated): its constants
\* and its output go out of scope, and the next use of the component starts
\* from nothing.  The history variable may keep this outcome.
Return ==
    /\ pc \in {"done", "failed"}
    /\ pc' = "idle"
    /\ props' = NoProps
    /\ dark' = ""
    /\ light' = ""
    /\ lookups' = <<>>
    /\ loaderCalls' = <<>>
    /\ elements' = <<>>
    /\ error' = ""
    /\ \/ recorded' = [taken |-> TRUE, props |-> props, outcome |-> Outcome]
       \/ recorded' = recorded
    /\ UNCHANGED <<images, images0>>

Next ==
    \/ Invoke
    \/ CheckDark
    \/ CheckLight
    \/ RenderDark
    \/ RenderLight
    \/ Return

Spec == Init /\ [][Next]_vars

----------------------------------------------------------------------------
(* Properties.                                                             *)

Keys == DOMAIN images

Running == pc # "idle"

\* A reference that does not begin with the path separator.
Relative(r) == r = "" \/ Head(r) # "/"

Quoted(k) == "\"" \o k \o "\""

Count(q, x) == Cardinality({ i \in DOMAIN q : q[i] = x })

\* C1: whenever at least one of the two normalized keys is absent from the
\* collection, the invocation is still checking or has failed, and it has
\* emitted no element and invoked no loader.
C1_MissingKeyFailsBeforeOutput ==
    (Running /\ (dark \notin Keys \/ light \notin Keys)) =>
        /\ pc \in {"checkDark", "checkLight", "failed"}
        /\ elements = <<>>
        /\ loaderCalls = <<>>

\* C1 witness: a failure where only the light key is absent.
C1_Witness ==
    /\ pc = "failed"
    /\ dark \in Keys
    /\ light \notin Keys

\* C2: when both normalized keys are present the invocation never fails, and
\* once done it has emitted exactly two elements, the first with the result of
\* the loader stored under the dark key, the second with that of the loader
\* stored under the light key, both with the caller's alt text.
C2_BothPresentSucceeds ==
    (Running /\ dark \in Keys /\ light \in Keys) =>
        /\ pc # "failed"
        /\ error = ""
        /\ pc = "done" =>
            /\ Len(elements) = 2
            /\ elements[1].src = [default |-> images0[dark].module]
            /\ elements[2].src = [default |-> images0[light].module]
            /\ elements[1].alt = props.alt
            /\ elements[2].alt = props.alt

\* C2 witness: a finished invocation whose dark and light references are equal.
C2_Witness ==
    /\ pc = "done"
    /\ props.dark = props.light
    /\ Len(elements) = 2

\* C3: for a reference not starting with "/" (the empty one included) the
\* lookup key is "/src/assets" + "/" + reference, for dark and for light.
C3_RelativeGetsSeparator ==
    Running =>
        /\ Relative(props.dark) => dark = "/src/assets" \o "/" \o props.dark
        /\ Relative(props.light) => light = "/src/assets" \o "/" \o props.light

\* C3 witness: the calldata page's dark reference, with an empty light one.
C3_Witness ==
    /\ Running
    /\ props.dark = "concepts/calldata/dissection-dark.svg"
    /\ dark = "/src/assets/concepts/calldata/dissection-dark.svg"
    /\ props.light = ""
    /\ light = "/src/assets/"

\* C4: for a reference starting with "/" the lookup key is "/src/assets" +
\* reference with nothing inserted, for dark and for light.
C4_RootedKeepsSlashes ==
    Running =>
        /\ ~Relative(props.dark) => dark = "/src/assets" \o props.dark
        /\ ~Relative(props.light) => light = "/src/assets" \o props.light

\* C4 witness: references starting with one and with two separators.
C4_Witness ==
    /\ Running
    /\ props.dark = "//concepts/calldata/dissection-dark.svg"
    /\ dark = "/src/assets//concepts/calldata/dissection-dark.svg"
    /\ props.light = "/concepts/calldata/dissection-dark.svg"
    /\ light = "/src/assets/concepts/calldata/dissection-dark.svg"

\* C5: a failure's message quotes a normalized key that is absent from the
\* collection and quotes the pattern the collection was built with; when only
\* the light key is absent it quotes the light key and not the dark key.
C5_ErrorNamesMissingKeyAndGlob ==
    pc = "failed" =>
        /\ \E k \in {dark, light} : k \notin Keys /\ Contains(error, Quoted(k))
        /\ Contains(error, Quoted(GlobPattern))
        /\ (dark \in Keys /\ light \notin Keys) =>
            /\ Contains(error, Quoted(light))
            /\ ~Contains(error, Quoted(dark))

\* C5 witness: only the light key is absent and the message quotes it.
C5_Witness ==
    /\ pc = "failed"
    /\ dark \in Keys
    /\ props.light = "nonexistent.svg"
    /\ Contains(error, "\"/src/assets/nonexistent.svg\"")

\* Exactly one of the two emitted elements is displayed under theme t.
ExactlyOneShown(t) ==
    /\ Shown(t, elements[1].class) <=> t = "dark"
    /\ Shown(t, elements[2].class) <=> t # "dark"

\* The extra class brings a display rule of its own.
ClassHasDisplayRule ==
    /\ props.class.given
    /\ \E tok \in Range(Tokens(props.class.value)) : IsDisplayRule(tok)

\* C6 as stated: after every successful resolution, for every theme and every
\* extra class, the dark element alone is displayed under "dark" and the light
\* element alone under any other theme.
C6_Original ==
    pc = "done" => \A t \in Themes : ExactlyOneShown(t)

\* C6 amended: the same, for every extra class that brings no display rule of
\* its own (an absent extra class included).
C6_OneShownWithoutExtraDisplayRule ==
    (pc = "done" /\ ~ClassHasDisplayRule) => \A t \in Themes : ExactlyOneShown(t)

\* C6 witness: successes with an extra class and without one.
C6_Witness ==
    /\ pc = "done"
    /\ props.class.given
    /\ ~ClassHasDisplayRule
    /\ recorded.taken
    /\ recorded.outcome.ok
    /\ ~recorded.props.class.given

\* C7: on success the dark element's class is the hidden-by-default rule, the
\* visible-in-dark rule and the extra class, the light element's class is the
\* visible-by-default rule, the hidden-in-dark rule and the same extra class,
\* and with no extra class there is no token besides the visibility rules.
C7_ClassExpressions ==
    pc = "done" =>
        LET extra == IF props.class.given THEN Tokens(props.class.value) ELSE <<>>
        IN  /\ Tokens(elements[1].class) = <<"!hidden", "dark:!block">> \o extra
            /\ Tokens(elements[2].class) = <<"block", "dark:hidden">> \o extra

\* The existence checks come first and a failed one is terminal: a loader call
\* or an element implies that exactly the dark and then the light key were
\* looked up and found, and a failure has looked up nothing after the missing
\* key, called no loader and emitted no element.
ChecksComeFirst ==
    /\ (loaderCalls # <<>> \/ elements # <<>>) =>
        /\ lookups = <<dark, light>>
        /\ dark \in Keys
        /\ light \in Keys
    /\ pc = "failed" =>
        /\ loaderCalls = <<>>
        /\ elements = <<>>
        /\ lookups \in {<<dark>>, <<dark, light>>}
        /\ lookups[Len(lookups)] \notin Keys
        /\ \A i \in 1..(Len(lookups) - 1) : lookups[i] \in Keys

\* C8 as stated: the checks come first, a failed check is terminal, and every
\* loader is invoked at most once in an invocation.
C8_Original ==
    /\ ChecksComeFirst
    /\ \A k \in Keys : Count(loaderCalls, k) <= 1

\* C8 amended: the checks come first, a failed check is terminal, and each of
\* the two loader call sites runs at most once: the dark call then the light
\* call, so a loader is invoked at most once when the two keys differ and the
\* one shared loader is invoked twice when they are the same key.
C8_ChecksFirstCallSitesOnce ==
    /\ ChecksComeFirst
    /\ loaderCalls \in {<<>>, <<dark>>, <<dark, light>>}
    /\ dark # light => \A k \in Keys : Count(loaderCalls, k) <= 1
    /\ (pc = "done" /\ dark = light) => Count(loaderCalls, dark) = 2

\* C8 witness: a success whose dark and light references differ only by the
\* leading separator, so that both call sites invoked the same loader.
C8_Witness ==
    /\ pc = "done"
    /\ props.dark # props.light
    /\ loaderCalls = <<dark, dark>>

\* C9: the collection (its keys and their loaders) is what it was before the
\* first invocation, whatever invocations have run.
C9_CollectionUnchanged ==
    images = images0

\* C9 witness: a success after an earlier failure against a non-empty collection.
C9_Witness ==
    /\ pc = "done"
    /\ recorded.taken
    /\ ~recorded.outcome.ok
    /\ Keys # {}

\* C10: an invocation that finishes with the props of an earlier invocation
\* has that invocation's outcome, whatever ran in between.
C10_OutcomeDependsOnPropsOnly ==
    (pc \in {"done", "failed"} /\ recorded.taken /\ recorded.props = props) =>
        Outcome = recorded.outcome

\* C10 witness: a success repeated with the same props.
C10_Witness ==
    /\ pc = "done"
    /\ recorded.taken
    /\ recorded.props = props
    /\ recorded.outcome = [ok |-> TRUE, elements |-> elements]

\* C11: the dark reference is validated first: the keys looked up are always
\* a prefix of dark, light, and when both keys are absent the failure quotes
\* the dark key (and not a different light key) after looking up the dark key
\* alone.
C11_DarkValidatedFirst ==
    /\ lookups \in {<<>>, <<dark>>, <<dark, light>>}
    /\ (pc = "failed" /\ dark \notin Keys /\ light \notin Keys) =>
        /\ lookups = <<dark>>
        /\ Contains(error, Quoted(dark))
        /\ dark # light => ~Contains(error, Quoted(light))

\* C11 witness: a failure with two different keys, both absent.
C11_Witness ==
    /\ pc = "failed"
    /\ dark \notin Keys
    /\ light \notin Keys
    /\ dark # light
    /\ props.light = "nonexistent.svg"

\* The props q are the props p with the dark or the light reference r (not
\* starting with "/") replaced by "/" + r, or left as it is.
SlashVariant(p, q) ==
    /\ q.alt = p.alt
    /\ q.class = p.class
    /\ q.dark = p.dark \/ (Relative(p.dark) /\ q.dark = "/" \o p.dark)
    /\ q.light = p.light \/ (Relative(p.light) /\ q.light = "/" \o p.light)
    /\ q # p

\* C12: a reference r not starting with "/" and "/" + r normalize to the same
\* key, an invocation has the outcome of an earlier one whose props differ
\* from its own only by such a leading "/", in either direction, and every
\* normalized key begins with "/src/assets/".
C12_LeadingSeparatorIrrelevant ==
    /\ Running =>
        /\ StartsWith(dark, "/src/assets/")
        /\ StartsWith(light, "/src/assets/")
        /\ Relative(props.dark) => Normalize("/" \o props.dark) = dark
        /\ Relative(props.light) => Normalize("/" \o props.light) = light
    /\ (pc \in {"done", "failed"} /\ recorded.taken
          /\ (SlashVariant(props, recorded.props) \/ SlashVariant(recorded.props, props))) =>
        Outcome = recorded.outcome

\* C12 witness: a failure on the light key whose reference has no leading "/",
\* after the same invocation with "/" in front of the light reference.
C12_Witness ==
    /\ pc = "failed"
    /\ dark \in Keys
    /\ Relative(props.light)
    /\ recorded.taken
    /\ recorded.props = [props EXCEPT !.light = "/" \o props.light]
    /\ recorded.outcome = [ok |-> FALSE, error |-> error]

====
